---- MODULE Spec2Model ----
(***************************************************************************)
(* Command Automation Engine of the Hybrid LLM Desktop Assistant           *)
(* (Backend/Automation.py).  A batch of command strings is classified by   *)
(* translate_and_execute, one unit of work (asyncio.to_thread) is created  *)
(* per routed command, the units run concurrently in worker threads and    *)
(* asyncio.gather joins them; Automation wraps the whole and returns True. *)
(*                                                                         *)
(* Python strings are TLA+ strings; the str methods the code uses (lower,  *)
(* strip, startswith, endswith, removeprefix, the "in" substring test) are *)
(* computed character by character below.                                  *)
(***************************************************************************)
EXTENDS Integers, Sequences, FiniteSets, TLC

VARIABLES
    main,        \* MainExecution of the orchestrator: where it is and its locals
    commands,    \* the list handed to Automation(commands)
    console,     \* the lines translate_and_execute has printed
    messages,    \* the module-level list of chat messages Content appends to
    host,        \* the machine: its platform and the chrome.exe paths that exist
    windows,     \* the desktop: hwnd -> [title, visible] (hwnd = index)
    foreground,  \* hwnd of the window holding the keyboard focus, 0 = none
    idx,         \* commands already consumed by the for loop of translate_and_execute
    funcs,       \* translate_and_execute's funcs list: the units created so far
    units,       \* the running state of every unit handed to asyncio.gather
    brightness,  \* the monitor's brightness level as WMI reports it
    apc,         \* where the Automation coroutine is
    result       \* what Automation returned ("none" until it returns)

vars == <<main, commands, console, messages, host, windows, foreground, brightness, idx, funcs, units, apc, result>>

\* there is no orchestrator: Automation or a function of the module is called
\* directly
NoMain == [pc |-> "none", Decision |-> <<>>, q |-> 0, TaskExecution |-> FALSE, calls |-> 0, runs |-> 0]

-----------------------------------------------------------------------------
(* Python str operations *)

UpperLetters == "ABCDEFGHIJKLMNOPQRSTUVWXYZ"
LowerLetters == "abcdefghijklmnopqrstuvwxyz"

CharAt(s, i) == SubSeq(s, i, i)

\* the lower-case form of every upper-case letter
LowerOf ==
    [c \in {CharAt(UpperLetters, i) : i \in 1..Len(UpperLetters)} |->
        CharAt(LowerLetters, CHOOSE i \in 1..Len(UpperLetters) : CharAt(UpperLetters, i) = c)]

\* str.lower() on one character
LowerChar(c) == IF c \in DOMAIN LowerOf THEN LowerOf[c] ELSE c

RECURSIVE Lower(_)
\* str.lower()
Lower(s) ==
    IF Len(s) = 0 THEN ""
    ELSE LowerChar(CharAt(s, 1)) \o Lower(SubSeq(s, 2, Len(s)))

RECURSIVE LStrip(_)
LStrip(s) ==
    IF Len(s) > 0 /\ CharAt(s, 1) = " " THEN LStrip(SubSeq(s, 2, Len(s))) ELSE s

RECURSIVE RStrip(_)
RStrip(s) ==
    IF Len(s) > 0 /\ CharAt(s, Len(s)) = " " THEN RStrip(SubSeq(s, 1, Len(s) - 1)) ELSE s

\* str.strip()
Strip(s) == RStrip(LStrip(s))

\* sub in s
Contains(sub, s) ==
    \E i \in 0..(Len(s) - Len(sub)) : SubSeq(s, i + 1, i + Len(sub)) = sub

\* s.startswith(p)
StartsWith(s, p) == Len(p) <= Len(s) /\ SubSeq(s, 1, Len(p)) = p

\* s.endswith(p)
EndsWith(s, p) == Len(p) <= Len(s) /\ SubSeq(s, Len(s) - Len(p) + 1, Len(s)) = p

\* s.removeprefix(p)
RemovePrefix(s, p) == IF StartsWith(s, p) THEN SubSeq(s, Len(p) + 1, Len(s)) ELSE s

\* any(k in s for k in keys)
ContainsAny(keys, s) == \E k \in keys : Contains(k, s)

-----------------------------------------------------------------------------
(* translate_and_execute: the classification of one command *)

\* a bug: a word left out of the list
HardwareWords_Short ==
    {"volume", "brightness", "mute", "unmute", "lock", "shutdown", "turn off", "sleep"}

\* the list scanned when no prefix matched
HardwareWords ==
    {"volume", "brightness", "mute", "unmute", "lock", "shutdown", "restart",
     "turn off", "sleep"}

NoUnit == [fn |-> "none", arg |-> ""]

\* a bug: the final else schedules the command as a system command
Unknown_Scheduled(command) == [fn |-> "ExecuteCommand", arg |-> command]

\* the final else: nothing is scheduled, the command is printed as unknown
Unknown(command) == [fn |-> "unknown", arg |-> command]

\* a bug: whatever the final else yields is appended to funcs
IsUnit_Any(f) == f.fn # "none"

\* the classification scheduled a call
IsUnit(f) == f.fn \notin {"none", "unknown"}

\* asyncio.to_thread(fn, arg)
Unit(fn, arg) == [fn |-> fn, arg |-> arg]

\* The "open " branch.  Its first statement, if "open it" in command: pass,
\* has an empty body and is followed by a second, separate if, so it decides
\* nothing; the else that creates the unit belongs to the "open file " test.
OpenBranch(command) ==
    IF Contains("open file ", command)
    THEN NoUnit
    ELSE Unit("OpenApp", RemovePrefix(command, "open "))

\* The if/elif chain applied to one (already lower-cased) command: the unit it
\* appends to funcs, NoUnit for a branch that passes, Unknown for the final else.
Route(command) ==
    IF StartsWith(command, "open ") THEN OpenBranch(command)
    ELSE IF StartsWith(command, "general ") THEN NoUnit
    ELSE IF StartsWith(command, "close ")
        THEN Unit("CloseApp", RemovePrefix(command, "close "))
    ELSE IF StartsWith(command, "play ")
        THEN Unit("PlayYoutube", RemovePrefix(command, "play "))
    ELSE IF StartsWith(command, "content ")
        THEN Unit("Content", RemovePrefix(command, "content "))
    ELSE IF StartsWith(command, "youtube search ")
        THEN Unit("YoutubeSearch", RemovePrefix(command, "youtube search "))
    ELSE IF StartsWith(command, "google search ")
        THEN Unit("WebSearch", RemovePrefix(command, "google search "))
    ELSE IF StartsWith(command, "system ")
        THEN Unit("ExecuteCommand", RemovePrefix(command, "system "))
    ELSE IF ContainsAny(HardwareWords, command)
        THEN Unit("ExecuteCommand", command)
    ELSE Unknown(command)

\* one iteration of the for loop: lower-case, then route
Classify(command) == Route(Lower(command))

-----------------------------------------------------------------------------
(* The state of one unit of work (one asyncio.to_thread call).             *)
(*   pc    where the thread is inside its function ("done" = returned or   *)
(*         raised)                                                         *)
(*   ret   "True", "False", "raise" (an exception left the function) or    *)
(*         "none" while it runs                                            *)
(*   log   the OS-level effects the call has performed, in order           *)
(*   cmd   position in the batch of the command that created the unit      *)
(*         (0 for a direct call)                                           *)
(*   trace the steps of the function the thread has executed, in order     *)
(*   enum  how EnumWindows ended in CloseApp: "done", "raised", "none"     *)
(*         before it ran                                                   *)
(*   thread "running" in a worker thread, "queued" in the executor's work  *)
(*         queue, "blocked" in a call that does not return                 *)
(*   tiers the tiers OpenApp has attempted, in order, each with how it     *)
(*         ended                                                           *)
(*   launch the mechanisms open_in_chrome went through for OpenApp         *)
(*   stdout what the brightness query of ExecuteCommand printed             *)
(*   prompt the messages Content sent to the LLM (after the system message) *)
(*   app, found, k, fetch, cur: the function's local variables             *)

NewUnit(f, c) ==
    [fn |-> f.fn, arg |-> f.arg, cmd |-> c, pc |-> "start", ret |-> "none",
     log |-> <<>>, trace |-> <<>>, app |-> "", found |-> <<>>, k |-> 0,
     enum |-> "none", fetch |-> "none", stdout |-> "none", cur |-> 0, prompt |-> <<>>,
     tiers |-> <<>>, launch |-> <<>>, thread |-> "running"]

\* an effect on a named thing (a process image, a url, a key)
Effect(op, target) == [op |-> op, target |-> target, hwnd |-> 0, fg |-> 0, level |-> 0]

\* an effect aimed at window hwnd while window fg held the focus
WinEffect(op, hwnd, fg) == [op |-> op, target |-> "", hwnd |-> hwnd, fg |-> fg, level |-> 0]

\* a brightness level written
LevelEffect(op, level) == [op |-> op, target |-> "", hwnd |-> 0, fg |-> 0, level |-> level]

\* the function returns (or raises) after performing the effects
Finish(u, ret, effects) ==
    [u EXCEPT !.pc = "done", !.ret = ret, !.log = @ \o effects]

Running(i, fn, pc) ==
    /\ i \in 1..Len(units)
    /\ units[i].fn = fn
    /\ units[i].pc = pc
    /\ units[i].thread = "running"

\* thread i has executed the step it was at and is now in state u
Set(i, u) == units' = [units EXCEPT ![i] = [u EXCEPT !.trace = Append(@, units[i].pc)]]

-----------------------------------------------------------------------------
(* The single-call wrappers *)

\* WebSearch(query): pywhatkit.search, not guarded
WebSearch(i) ==
    /\ Running(i, "WebSearch", "start")
    /\ \/ Set(i, Finish(units[i], "True", <<Effect("search", units[i].arg)>>))
       \/ Set(i, Finish(units[i], "raise", <<>>))
    /\ UNCHANGED <<main, commands, console, messages, host, windows, foreground, brightness, idx, funcs, apc, result>>

\* PlayYoutube(query): pywhatkit.playonyt fetches the result page, not guarded
PlayYoutube(i) ==
    /\ Running(i, "PlayYoutube", "start")
    /\ \/ Set(i, Finish(units[i], "True", <<Effect("playonyt", units[i].arg)>>))
       \/ Set(i, Finish(units[i], "raise", <<>>))
    /\ UNCHANGED <<main, commands, console, messages, host, windows, foreground, brightness, idx, funcs, apc, result>>

YoutubeUrl(Topic) == "https://www.youtube.com/results?search_query=" \o Topic

\* YoutubeSearch(Topic): webbrowser.open reports failure by its return value
YoutubeSearch(i) ==
    /\ Running(i, "YoutubeSearch", "start")
    /\ Set(i, Finish(units[i], "True", <<Effect("webbrowser.open", YoutubeUrl(units[i].arg))>>))
    /\ UNCHANGED <<main, commands, console, messages, host, windows, foreground, brightness, idx, funcs, apc, result>>

-----------------------------------------------------------------------------
(* Content(Topic): the request to the LLM over the shared messages list,    *)
(* the file and the editor; nothing is guarded                             *)

\* {"role": role, "content": content}
Message(role, content) == [role |-> role, content |-> content]

\* str.replace(old, ""): every occurrence, left to right
RECURSIVE RemoveAll(_, _)
RemoveAll(s, old) ==
    IF Len(s) < Len(old) THEN s
    ELSE IF StartsWith(s, old) THEN RemoveAll(SubSeq(s, Len(old) + 1, Len(s)), old)
    ELSE SubSeq(s, 1, 1) \o RemoveAll(SubSeq(s, 2, Len(s)), old)

\* str.replace(' ', '_')
RECURSIVE Underscored(_)
Underscored(s) ==
    IF s = "" THEN ""
    ELSE (IF SubSeq(s, 1, 1) = " " THEN "_" ELSE SubSeq(s, 1, 1))
         \o Underscored(SubSeq(s, 2, Len(s)))

NameLen == 10

\* Topic_Clean[:10]
Prefix(s, n) == SubSeq(s, 1, IF Len(s) < n THEN Len(s) ELSE n)

\* file_name = f"LLM_Output_{Topic_Clean[:10].replace(' ', '_')}.txt"
file_name(Topic) ==
    "LLM_Output_" \o Underscored(Prefix(RemoveAll(Topic, "Content"), NameLen)) \o ".txt"

\* What the LLM streams back.  The server is outside the program; the reply
\* is taken to address the last message of the conversation it was sent.
Answer(prompt) == "reply to: " \o prompt[Len(prompt)].content

\* messages.append({"role": "user", "content": Topic})
Content_append(i) ==
    LET u == units[i]
    IN  /\ Running(i, "Content", "start")
        /\ messages' = Append(messages, Message("user", u.arg))
        /\ Set(i, [u EXCEPT !.pc = "request"])
        /\ UNCHANGED <<main, commands, console, host, windows, foreground, brightness, idx, funcs, apc, result>>

\* client.chat.completions.create(messages = SystemChatBot + messages): the
\* list is read when the call is made; a connection error leaves the function
Content_request(i) ==
    LET u == units[i]
    IN  /\ Running(i, "Content", "request")
        /\ \/ Set(i, [u EXCEPT !.pc = "answer", !.prompt = messages])
           \/ Set(i, Finish(u, "raise", <<>>))
        /\ UNCHANGED <<main, commands, console, messages, host, windows, foreground, brightness, idx, funcs, apc, result>>

\* the stream is read to its end, the answer is appended to messages, written
\* to the file and shown in the editor; a failing write or launch raises
Content_answer(i) ==
    LET u == units[i]
        file == file_name(u.arg)
    IN  /\ Running(i, "Content", "answer")
        /\ messages' = Append(messages, Message("assistant", Answer(u.prompt)))
        /\ \/ Set(i, Finish(u, "True", <<Effect("write", file), Effect("notepad", file)>>))
           \/ Set(i, Finish(u, "raise", <<>>))
        /\ UNCHANGED <<main, commands, console, host, windows, foreground, brightness, idx, funcs, apc, result>>

-----------------------------------------------------------------------------
(* OpenApp(app): known folder, installed application, first search result,  *)
(* generic search page                                                     *)

\* a bug: an alias left out of the list
KnownFolders_Short == {"file explorer", "file manager", "my computer", "explorer"}

\* if app.lower() in [...]
KnownFolders == {"file explorer", "file manager", "my computer", "this pc", "explorer"}

GoogleUrl(query) == "https://www.google.com/search?q=" \o query

\* the href of the first <a jsname="UWckNb"> of the result page
FirstLink(query) == "href:" \o query

\* the three entries of chrome_paths, by position
ChromePaths == 1..3

\* one launch mechanism tried by open_in_chrome: a chrome.exe path (path > 0),
\* the shell's "start chrome", or webbrowser.open, and how it ended: "ok",
\* "failed" (the command ran and reported a non-zero status) or "raised"
Attempt(mech, path, outcome) == [mech |-> mech, path |-> path, outcome |-> outcome]

\* the except of open_in_chrome: webbrowser.open(url)
GenericOpen == <<Attempt("webbrowser.open", 0, "ok")>>

\* for path in chrome_paths: if os.path.exists(path)
FirstExisting(paths) == CHOOSE p \in paths : \A q \in paths : p <= q

\* open_in_chrome(url): the sequences of mechanisms one call can go through.
\* On Windows the first existing chrome.exe path is run, "start chrome" when
\* none exists; subprocess.run checks no exit status, so a failing shell
\* command returns normally; an exception of either leads to webbrowser.open.
\* Elsewhere webbrowser.open is called at once.
open_in_chrome ==
    IF host.system # "Windows" THEN {GenericOpen}
    ELSE IF host.chrome # {}
    THEN LET p == FirstExisting(host.chrome)
         IN  { <<Attempt("chrome.exe", p, "ok")>>,
               <<Attempt("chrome.exe", p, "raised")>> \o GenericOpen }
    ELSE { <<Attempt("start chrome", 0, "ok")>>,
           <<Attempt("start chrome", 0, "failed")>>,
           <<Attempt("start chrome", 0, "raised")>> \o GenericOpen }

\* the launches of a run that took place, as effects on the url
Launches(run, url) ==
    LET ok == SelectSeq(run, LAMBDA a : a.outcome = "ok")
    IN  [j \in 1..Len(ok) |-> Effect(ok[j].mech, url)]

\* tier n of the chain was attempted and ended with outcome
Tier(n, outcome) == [tier |-> n, outcome |-> outcome]

\* the try block up to the call it makes: the alias test decides between
\* os.startfile (tier 1) and AppOpener (tier 2, after the alias test missed)
TryTiers(app, outcome) ==
    IF app \in KnownFolders THEN <<Tier(1, outcome)>>
    ELSE <<Tier(1, "miss"), Tier(2, outcome)>>

\* the try block: os.startfile for a known folder, AppOpener otherwise; any
\* exception enters the bare except
OpenApp_try(i) ==
    LET u == units[i]
        ok == [u EXCEPT !.tiers = @ \o TryTiers(u.arg, "ok")]
        raised == [u EXCEPT !.tiers = @ \o TryTiers(u.arg, "raised")]
    IN  /\ Running(i, "OpenApp", "start")
        /\ \/ /\ u.arg \in KnownFolders
              /\ Set(i, Finish(ok, "True", <<Effect("startfile", "explorer")>>))
           \/ /\ u.arg \notin KnownFolders
              /\ Set(i, Finish(ok, "True", <<Effect("appopen", u.arg)>>))
           \/ Set(i, [raised EXCEPT !.pc = "search"])
        /\ UNCHANGED <<main, commands, console, messages, host, windows, foreground, brightness, idx, funcs, apc, result>>

\* a bug: a fetch that was refused is repeated
GoogleSearch_Again(u, outcome) ==
    LET v == [u EXCEPT !.fetch = outcome, !.tiers = Append(@, Tier(3, outcome))]
    IN  IF outcome = "raised" THEN Finish(v, "raise", <<>>)
        ELSE IF outcome = "non200" /\ Len(u.tiers) < 5 THEN v
        ELSE [v EXCEPT !.pc = "open"]

\* what google_search(app) does with the outcome of sess.get: an exception of
\* sess.get is raised inside the except block and leaves OpenApp
GoogleSearch(u, outcome) ==
    LET v == [u EXCEPT !.fetch = outcome, !.tiers = Append(@, Tier(3, outcome))]
    IN  IF outcome = "raised" THEN Finish(v, "raise", <<>>)
        ELSE [v EXCEPT !.pc = "open"]

\* html = google_search(app); link = extract_link(html)
OpenApp_search(i) ==
    /\ Running(i, "OpenApp", "search")
    /\ \E outcome \in {"raised", "non200", "nolink", "link"} :
          Set(i, GoogleSearch(units[i], outcome))
    /\ UNCHANGED <<main, commands, console, messages, host, windows, foreground, brightness, idx, funcs, apc, result>>

\* a bug: the search page is opened whether or not a link was extracted
OpenTarget_Generic(u) == GoogleUrl(u.arg)

\* the url handed to open_in_chrome: link[0] when a link was extracted, the
\* search page otherwise
OpenTarget(u) ==
    IF u.fetch = "link" THEN FirstLink(u.arg) ELSE GoogleUrl(u.arg)

\* open_in_chrome(link[0]) or open_in_chrome(search url); return True
OpenApp_open(i) ==
    LET u == units[i]
        url == OpenTarget(u)
        generic == IF url = GoogleUrl(u.arg) THEN <<Tier(4, "ok")>> ELSE <<>>
    IN  /\ Running(i, "OpenApp", "open")
        /\ \E run \in open_in_chrome :
              Set(i, Finish([u EXCEPT !.launch = run, !.tiers = @ \o generic],
                            "True", Launches(run, url)))
        /\ UNCHANGED <<main, commands, console, messages, host, windows, foreground, brightness, idx, funcs, apc, result>>


-----------------------------------------------------------------------------
(* CloseApp(app): shell quit for File Explorer, scoped kill for Settings,  *)
(* graceful close of the matching windows, force kill as the last resort   *)

\* app = app.lower().strip()
Normalize(app) == Strip(Lower(app))

\* a bug: only the bare name is taken for the file manager
IsFileExplorer_Exact(app) == app = "explorer"

\* if "file explorer" in app or "explorer" == app
IsFileExplorer(app) == Contains("file explorer", app) \/ app = "explorer"

critical_processes ==
    {"explorer", "winlogon", "services", "csrss", "lsass", "smss", "svchost", "dwm",
     "chrome", "firefox", "msedge", "lockapp", "searchui", "python", "py"}

BrowserNames == {"chrome", "edge", "firefox", "brave", "opera"}

\* is_browser = any(b in title for b in [...])
is_browser(title) == ContainsAny(BrowserNames, title)

\* the user asked for the browser itself
NamesBrowser(app) ==
    \/ Contains("chrome", app)
    \/ Contains("edge", app)
    \/ Contains("firefox", app)
    \/ Contains("browser", app)

\* title = buf.value.lower()
TitleOf(hwnd) == Lower(windows[hwnd].title)

RECURSIVE MatchFrom(_, _)
\* enum_windows_callback over every top-level window, in enumeration order
MatchFrom(app, hwnd) ==
    IF hwnd > Len(windows) THEN <<>>
    ELSE IF windows[hwnd].visible /\ Contains(app, TitleOf(hwnd))
         THEN <<hwnd>> \o MatchFrom(app, hwnd + 1)
         ELSE MatchFrom(app, hwnd + 1)

found_windows(app) == MatchFrom(app, 1)

\* a bug the safety check is there to prevent: every name is killed
Fallback_Unguarded(app) == [kill |-> TRUE, ret |-> "True"]

\* a bug: a name that is no image name is killed as well
Fallback_AnyName(app) ==
    IF app \in critical_processes THEN [kill |-> FALSE, ret |-> "False"]
    ELSE [kill |-> TRUE, ret |-> "True"]

\* The last-resort block: refuse a critical name, kill an executable image
\* name, fail otherwise.
Fallback(app) ==
    IF app \in critical_processes THEN [kill |-> FALSE, ret |-> "False"]
    ELSE IF EndsWith(app, ".exe") THEN [kill |-> TRUE, ret |-> "True"]
    ELSE [kill |-> FALSE, ret |-> "False"]

\* normalisation and the two special cases
CloseApp_start(i) ==
    LET app == Normalize(units[i].arg)
        u == [units[i] EXCEPT !.app = app]
    IN  /\ Running(i, "CloseApp", "start")
        /\ \/ /\ IsFileExplorer(app)
              /\ \/ Set(i, Finish(u, "True", <<Effect("shell.quit", "explorer")>>))
                 \/ Set(i, Finish(u, "False", <<>>))
           \/ /\ ~IsFileExplorer(app)
              /\ Contains("settings", app)
              /\ \/ Set(i, Finish(u, "True", <<Effect("taskkill", "SystemSettings.exe")>>))
                 \/ Set(i, [u EXCEPT !.pc = "enum"])
           \/ /\ ~IsFileExplorer(app)
              /\ ~Contains("settings", app)
              /\ Set(i, [u EXCEPT !.pc = "enum"])
        /\ UNCHANGED <<main, commands, console, messages, host, windows, foreground, brightness, idx, funcs, apc, result>>

\* EnumWindows; an exception (the imports, the callback type, the call) is
\* caught by the outer except and leads to the fallback, as does an empty match
CloseApp_enum(i) ==
    LET u == units[i]
        found == found_windows(u.app)
    IN  /\ Running(i, "CloseApp", "enum")
        /\ \/ Set(i, [u EXCEPT !.pc = "fallback", !.enum = "raised"])
           \/ /\ found = <<>>
              /\ Set(i, [u EXCEPT !.pc = "fallback", !.enum = "done"])
           \/ /\ found # <<>>
              /\ Set(i, [u EXCEPT !.pc = "win", !.enum = "done", !.found = found, !.k = 1])
        /\ UNCHANGED <<main, commands, console, messages, host, windows, foreground, brightness, idx, funcs, apc, result>>

\* the for loop moves to the next window, or CloseApp returns True after the last
NextWindow(u) ==
    IF u.k = Len(u.found) THEN Finish(u, "True", <<>>)
    ELSE [u EXCEPT !.pc = "win", !.k = @ + 1]

\* if is_browser and "chrome" not in app and ...
TabPath(app, title) == is_browser(title) /\ ~NamesBrowser(app)

\* a bug: the focus is taken away from every window
Focus_Lost(hwnd) == 0

\* ShowWindow(hwnd, 9); SetForegroundWindow(hwnd): the window that holds the
\* focus afterwards
Focus(hwnd) == hwnd

\* one window of the loop, up to the focus change or the close message
CloseApp_win(i) ==
    LET u == units[i]
        hwnd == u.found[u.k]
    IN  /\ Running(i, "CloseApp", "win")
        /\ \/ \* the title query raised: outer except
              /\ Set(i, [u EXCEPT !.pc = "fallback"])
              /\ UNCHANGED foreground
           \/ \* close tab: ShowWindow, SetForegroundWindow
              /\ TabPath(u.app, TitleOf(hwnd))
              /\ Set(i, [u EXCEPT !.pc = "key"])
              /\ foreground' = Focus(hwnd)
           \/ \* close tab: focusing raised, caught by the inner except
              /\ TabPath(u.app, TitleOf(hwnd))
              /\ Set(i, NextWindow(u))
              /\ UNCHANGED foreground
           \/ \* PostMessageW(hwnd, WM_CLOSE)
              /\ ~TabPath(u.app, TitleOf(hwnd))
              /\ Set(i, NextWindow([u EXCEPT !.log = Append(@, WinEffect("WM_CLOSE", hwnd, 0))]))
              /\ UNCHANGED foreground
           \/ \* PostMessageW raised: outer except
              /\ ~TabPath(u.app, TitleOf(hwnd))
              /\ Set(i, [u EXCEPT !.pc = "fallback"])
              /\ UNCHANGED foreground
        /\ UNCHANGED <<main, commands, console, messages, host, windows, brightness, idx, funcs, apc, result>>

\* after time.sleep(0.5): keyboard.press_and_release("ctrl+w"), which goes to
\* whichever window holds the focus by then
CloseApp_key(i) ==
    LET u == units[i]
        hwnd == u.found[u.k]
    IN  /\ Running(i, "CloseApp", "key")
        /\ \/ Set(i, NextWindow([u EXCEPT !.log = Append(@, WinEffect("ctrl+w", hwnd, foreground))]))
           \/ Set(i, NextWindow(u))
        /\ UNCHANGED <<main, commands, console, messages, host, windows, foreground, brightness, idx, funcs, apc, result>>

\* Fallback: Force Kill (Last Resort)
CloseApp_fallback(i) ==
    LET u == units[i]
        f == Fallback(u.app)
    IN  /\ Running(i, "CloseApp", "fallback")
        /\ \/ /\ f.kill
              /\ Set(i, Finish(u, f.ret, <<Effect("taskkill", u.app)>>))
           \/ \* subprocess.run raised: except: return False
              /\ f.kill
              /\ Set(i, Finish(u, "False", <<>>))
           \/ /\ ~f.kill
              /\ Set(i, Finish(u, f.ret, <<>>))
        /\ UNCHANGED <<main, commands, console, messages, host, windows, foreground, brightness, idx, funcs, apc, result>>


-----------------------------------------------------------------------------
(* ExecuteCommand(command): the substring router of the System Control Unit *)

\* the first row of the if/elif chain whose trigger is in the command
Router(command) ==
    IF Contains("mute", command) THEN "mute"
    ELSE IF Contains("unmute", command) THEN "unmute"
    ELSE IF Contains("increase volume", command) \/ Contains("volume up", command)
        THEN "increase_volume"
    ELSE IF Contains("decrease volume", command) \/ Contains("volume down", command)
        THEN "decrease_volume"
    ELSE IF Contains("increase brightness", command) \/ Contains("brightness up", command)
        THEN "brightness_up"
    ELSE IF Contains("decrease brightness", command) \/ Contains("brightness down", command)
        THEN "brightness_down"
    ELSE IF Contains("turn off", command) \/ Contains("sleep", command) THEN "turn_off"
    ELSE IF Contains("turn on", command) THEN "turn_on"
    ELSE IF Contains("lock", command) THEN "lock"
    ELSE IF Contains("shutdown", command) THEN "shutdown"
    ELSE IF Contains("restart", command) THEN "restart"
    ELSE "unknown"

\* rows played through the keyboard library: the key event is injected and
\* the call returns None
KeyRows == {"mute", "unmute", "increase_volume", "decrease_volume"}

\* a bug: "turn on" suspends the machine like "turn off"
OsRows_WithTurnOn == {"turn_off", "turn_on", "lock", "shutdown", "restart"}

\* rows that call os.system or user32 directly (these report by return value)
OsRows == {"turn_off", "lock", "shutdown", "restart"}

BrightnessRows == {"brightness_up", "brightness_down"}

BrightnessStep == 10

\* adjust_brightness(10) / adjust_brightness(-10)
Change(row) == IF row = "brightness_up" THEN BrightnessStep ELSE 0 - BrightnessStep

Min(a, b) == IF a < b THEN a ELSE b

Max(a, b) == IF a > b THEN a ELSE b

\* a bug: the level is written as computed
new_brightness_Unclamped(current, change) == current + change

\* new_brightness = max(0, min(100, current_brightness + change))
new_brightness(current, change) == Max(0, Min(100, current + change))

\* what the brightness query can give that is no level: empty output, text
\* that int() rejects, or an exception of subprocess.run
NoReading == {"empty", "text", "raised"}

\* a bug: a missing reading is taken for level 0 and the adjustment goes on
Abandon_Default(u, out) == [u EXCEPT !.stdout = out, !.pc = "set", !.cur = 0]

\* adjust_brightness returns before the set call; ExecuteCommand returns True
Abandon(u, out) == Finish([u EXCEPT !.stdout = out], "True", <<>>)

\* the router, and for a brightness row the query of the current level
ExecuteCommand_start(i) ==
    LET u == units[i]
        row == Router(u.arg)
    IN  /\ Running(i, "ExecuteCommand", "start")
        /\ \/ /\ row \in KeyRows
              /\ Set(i, Finish(u, "True", <<Effect("key", row)>>))
           \/ /\ row \in OsRows
              /\ Set(i, Finish(u, "True", <<Effect("os", row)>>))
           \/ /\ row \in {"turn_on", "unknown"}
              /\ Set(i, Finish(u, "True", <<>>))
           \/ \* the query printed an integer
              /\ row \in BrightnessRows
              /\ Set(i, [u EXCEPT !.pc = "set", !.stdout = "int", !.cur = brightness])
           \/ \* no reading: abandoned
              /\ row \in BrightnessRows
              /\ \E out \in NoReading : Set(i, Abandon(u, out))
        /\ UNCHANGED <<main, commands, console, messages, host, windows, foreground, brightness, idx, funcs, apc, result>>

\* WmiSetBrightness(1, new_brightness); an exception is caught and printed
ExecuteCommand_set(i) ==
    LET u == units[i]
        level == new_brightness(u.cur, Change(Router(u.arg)))
    IN  /\ Running(i, "ExecuteCommand", "set")
        /\ \/ /\ Set(i, Finish(u, "True", <<LevelEffect("WmiSetBrightness", level)>>))
              /\ brightness' = level
           \/ /\ Set(i, Finish(u, "True", <<>>))
              /\ UNCHANGED brightness
        /\ UNCHANGED <<main, commands, console, messages, host, windows, foreground, idx, funcs, apc, result>>

-----------------------------------------------------------------------------
(* translate_and_execute and Automation *)

\* print(f"Unknown command: {command}")
UnknownLine(c, command) == [cmd |-> c, text |-> "Unknown command: " \o command]

\* one iteration of "for command in commands": funcs gains the unit the
\* command is routed to, if any; the final else prints the command instead
Translate ==
    /\ apc = "translate"
    /\ idx < Len(commands)
    /\ LET f == Classify(commands[idx + 1])
       IN  /\ funcs' = IF IsUnit(f)
                        THEN Append(funcs, [fn |-> f.fn, arg |-> f.arg, cmd |-> idx + 1])
                        ELSE funcs
           /\ console' = IF f.fn = "unknown"
                          THEN Append(console, UnknownLine(idx + 1, f.arg))
                          ELSE console
    /\ idx' = idx + 1
    /\ UNCHANGED <<main, commands, messages, host, windows, foreground, brightness, units, apc, result>>

\* max_workers of the default executor asyncio.to_thread submits to,
\* min(32, os.cpu_count() + 4), on a machine with one processor
Workers == 5

\* results = await asyncio.gather(*funcs): every unit is submitted to the
\* executor in order; it starts a worker thread per item until it has
\* max_workers threads, later items wait in its queue
Gather ==
    /\ apc = "translate"
    /\ idx = Len(commands)
    /\ units' = [j \in 1..Len(funcs) |->
                    [NewUnit(funcs[j], funcs[j].cmd) EXCEPT
                        !.thread = IF j > Workers THEN "queued" ELSE "running"]]
    /\ apc' = "gather"
    /\ UNCHANGED <<main, commands, console, messages, host, windows, foreground, brightness, idx, funcs, result>>

AllDone == \A j \in 1..Len(units) : units[j].pc = "done"

SomeRaised == \E j \in 1..Len(units) : units[j].ret = "raise"

\* a bug: the batch result aggregates the units' results
AutomationResult_All(rets) ==
    IF \A j \in 1..Len(rets) : rets[j] = "True" THEN "True" ELSE "False"

\* Automation iterates over the yielded results, ignores them and returns True
AutomationResult(rets) == "True"

\* gather delivered every result: the generator yields them, Automation returns
Return ==
    /\ apc = "gather"
    /\ AllDone
    /\ ~SomeRaised
    /\ apc' = "returned"
    /\ result' = AutomationResult([j \in 1..Len(units) |-> units[j].ret])
    /\ UNCHANGED <<main, commands, console, messages, host, windows, foreground, brightness, idx, funcs, units>>

\* gather without return_exceptions: the first exception of a unit is raised
\* at the await at once; the other threads are not cancelled and keep running
Raise ==
    /\ apc = "gather"
    /\ SomeRaised
    /\ apc' = "raised"
    /\ UNCHANGED <<main, commands, console, messages, host, windows, foreground, brightness, idx, funcs, units, result>>

\* the worker threads
Threads == 1..Len(units)

\* the items of the executor's queue
Queued == {j \in Threads : units[j].thread = "queued"}

\* the workers that are inside a unit
Busy == {j \in Threads : units[j].thread # "queued" /\ units[j].pc # "done"}

\* a worker whose unit has returned takes the oldest item of the queue
Dequeue ==
    /\ Queued # {}
    /\ Cardinality(Busy) < Workers
    /\ LET j == CHOOSE q \in Queued : \A r \in Queued : q <= r
       IN  units' = [units EXCEPT ![j].thread = "running"]
    /\ UNCHANGED <<main, commands, console, messages, host, windows, foreground, brightness, idx, funcs, apc, result>>

\* the call a unit is in does not return (a hung fetch, a launch or a wait
\* that blocks): nothing times it out
Hang ==
    \E i \in Threads :
        /\ units[i].thread = "running"
        /\ units[i].pc # "done"
        /\ units' = [units EXCEPT ![i].thread = "blocked"]
        /\ UNCHANGED <<main, commands, console, messages, host, windows, foreground, brightness, idx, funcs, apc, result>>

\* a step of a thread running OpenApp
OpenAppStep ==
    \/ \E i \in Threads : OpenApp_try(i)
    \/ \E i \in Threads : OpenApp_search(i)
    \/ \E i \in Threads : OpenApp_open(i)

\* a step of a thread running CloseApp
CloseAppStep ==
    \/ \E i \in Threads : CloseApp_start(i)
    \/ \E i \in Threads : CloseApp_enum(i)
    \/ \E i \in Threads : CloseApp_win(i)
    \/ \E i \in Threads : CloseApp_key(i)
    \/ \E i \in Threads : CloseApp_fallback(i)

\* a step of a thread running ExecuteCommand
ExecuteCommandStep ==
    \/ \E i \in Threads : ExecuteCommand_start(i)
    \/ \E i \in Threads : ExecuteCommand_set(i)

\* a step of a thread running Content
ContentStep ==
    \/ \E i \in Threads : Content_append(i)
    \/ \E i \in Threads : Content_request(i)
    \/ \E i \in Threads : Content_answer(i)

\* a step of a thread running one of the single-call wrappers
WrapperStep ==
    \/ \E i \in Threads : PlayYoutube(i)
    \/ \E i \in Threads : YoutubeSearch(i)
    \/ \E i \in Threads : WebSearch(i)


-----------------------------------------------------------------------------
(* Inputs *)

MaxBatch == 2

MaxWindows == 2

\* a Windows machine with Chrome installed in Program Files
DefaultHost == [system |-> "Windows", chrome |-> {1}]

\* the machines OpenApp is exercised on
Hosts ==
    {[system |-> "Windows", chrome |-> c] : c \in SUBSET ChromePaths}
        \cup {[system |-> "Linux", chrome |-> {}]}

\* every list of at most n commands of the pool
Batches(pool, n) == UNION {[1..m -> pool] : m \in 0..n}

WindowPool ==
    { [title |-> "YouTube - Google Chrome", visible |-> TRUE],
      [title |-> "Untitled - Notepad", visible |-> TRUE],
      [title |-> "notes.txt - Notepad", visible |-> TRUE],
      [title |-> "Notepad Helper", visible |-> FALSE],
      [title |-> "New Tab - Brave", visible |-> TRUE],
      [title |-> "Documents - File Explorer", visible |-> TRUE] }

\* desktops of at most n distinct windows, in every enumeration order
Desktops(n) ==
    {d \in UNION {[1..m -> WindowPool] : m \in 0..n} :
        \A a, b \in 1..Len(d) : a # b => d[a] # d[b]}

\* the desktop of the batch runs: a browser window and an editor
BatchDesktop ==
    << [title |-> "YouTube - Google Chrome", visible |-> TRUE],
       [title |-> "Untitled - Notepad", visible |-> TRUE] >>

\* one command per function, one that yields a Failure result, two that are dropped
BatchPool ==
    {"open spotify", "close youtube", "close calculator", "play believer",
     "content essay", "youtube search cats", "google search cats",
     "system brightness up", "hello there"}

\* Automation(commands) is called
Init ==
    /\ commands \in Batches(BatchPool, MaxBatch)
    /\ console = <<>>
    /\ main = NoMain
    /\ messages = <<>>
    /\ host = DefaultHost
    /\ windows = BatchDesktop
    /\ foreground = 0
    /\ brightness = 95
    /\ idx = 0
    /\ funcs = <<>>
    /\ units = <<>>
    /\ apc = "translate"
    /\ result = "none"

Next ==
    \/ Translate
    \/ Gather
    \/ Return
    \/ Raise
    \/ OpenAppStep
    \/ CloseAppStep
    \/ ExecuteCommandStep
    \/ ContentStep
    \/ WrapperStep

Spec == Init /\ [][Next]_vars

\* the commands the dispatcher is exercised on
DispatchPool ==
    {"open spotify", "open it", "open file notes.txt", "open itunes",
     "open notepad and open file x", "Open Spotify",
     "close chrome", "play believer", "content essay",
     "youtube search cats", "google search cats", "system mute",
     "volume up", "Lock", "please restart", "general lock the door",
     "general hello", "hello there", "openlock", "turn off the lights"}

InitDispatch ==
    /\ commands \in Batches(DispatchPool, MaxBatch)
    /\ console = <<>>
    /\ main = NoMain
    /\ messages = <<>>
    /\ host = DefaultHost
    /\ windows = <<>>
    /\ foreground = 0
    /\ brightness = 95
    /\ idx = 0
    /\ funcs = <<>>
    /\ units = <<>>
    /\ apc = "translate"
    /\ result = "none"

\* translate_and_execute up to the await
NextDispatch == Translate \/ Gather

SpecDispatch == InitDispatch /\ [][NextDispatch]_vars

\* a direct call fn(arg), outside any batch
Call(fn, arg) == <<NewUnit([fn |-> fn, arg |-> arg], 0)>>

CloseArgs ==
    {"chrome", " Chrome ", "chrome.exe", "CHROME.EXE", "explorer", "Explorer.exe",
     "python.exe", "Python", "msedge", "notepad", "notepad.exe", "youtube",
     "settings", "file explorer", " File Explorer ", "winlogon", "calculator", "brave",
     "", "  "}

InitClose ==
    /\ commands = <<>>
    /\ console = <<>>
    /\ main = NoMain
    /\ messages = <<>>
    /\ host = DefaultHost
    /\ windows \in Desktops(MaxWindows)
    /\ foreground = 0
    /\ brightness = 95
    /\ idx = 0
    /\ funcs = <<>>
    /\ \E a \in CloseArgs : units = Call("CloseApp", a)
    /\ apc = "direct"
    /\ result = "none"

NextClose == CloseAppStep

SpecClose == InitClose /\ [][NextClose]_vars

OpenArgs ==
    {"spotify", "notepad", "youtube", "file explorer", "file manager", "my computer",
     "this pc", "explorer", "File Explorer"}

InitOpen ==
    /\ commands = <<>>
    /\ console = <<>>
    /\ main = NoMain
    /\ messages = <<>>
    /\ host \in Hosts
    /\ windows = <<>>
    /\ foreground = 0
    /\ brightness = 95
    /\ idx = 0
    /\ funcs = <<>>
    /\ \E a \in OpenArgs : units = Call("OpenApp", a)
    /\ apc = "direct"
    /\ result = "none"

NextOpen == OpenAppStep

SpecOpen == InitOpen /\ [][NextOpen]_vars


-----------------------------------------------------------------------------
(* Vocabulary of the properties *)

Done(i) == units[i].pc = "done"

Visited(u, step) == \E j \in 1..Len(u.trace) : u.trace[j] = step

Performed(u, op) == \E j \in 1..Len(u.log) : u.log[j].op = op

\* the argument without a trailing ".exe"
ImageStem(name) ==
    IF EndsWith(name, ".exe") THEN SubSeq(name, 1, Len(name) - 4) ELSE name

\* the argument names a protected process: the name itself or its image name,
\* in any casing and with surrounding blanks
NamesProtected(arg) == ImageStem(Strip(Lower(arg))) \in critical_processes

\* the argument is a member of the protected set up to casing and blanks
IsProtected(arg) == Strip(Lower(arg)) \in critical_processes

\* taskkill /f was issued against a protected process
KilledProtected(u) ==
    \E j \in 1..Len(u.log) :
        u.log[j].op = "taskkill" /\ NamesProtected(u.log[j].target)

-----------------------------------------------------------------------------
(* CloseApp and the protected process set *)

\* C1: for every argument that names a protected process under any casing or
\* alias (such as the name with an executable suffix), CloseApp never issues
\* a forced termination for it.
C1_NoForceKillOfProtectedAlias ==
    \A i \in Threads :
        (units[i].fn = "CloseApp" /\ NamesProtected(units[i].arg))
            => ~KilledProtected(units[i])

\* C2: for every argument equal to a protected name up to casing and
\* surrounding blanks, CloseApp issues no force kill, never raises, and
\* returns False whenever it went through the force-kill fallback.
C2_ProtectedNameRefused ==
    \A i \in Threads :
        (units[i].fn = "CloseApp" /\ IsProtected(units[i].arg))
            => /\ ~Performed(units[i], "taskkill")
               /\ units[i].ret # "raise"
               /\ (Done(i) /\ Visited(units[i], "fallback")) => units[i].ret = "False"

\* a protected name given in another casing and with blanks was refused at
\* the fallback
C2_Witness ==
    \E i \in Threads :
        /\ units[i].fn = "CloseApp"
        /\ IsProtected(units[i].arg)
        /\ units[i].arg \notin critical_processes
        /\ Done(i)
        /\ Visited(units[i], "fallback")
        /\ units[i].ret = "False"


-----------------------------------------------------------------------------
(* The batch: completion and the returned value *)

Completed == apc \in {"returned", "raised"}

\* C3: Automation completes (returns, or hands control back by raising) only
\* after every unit dispatched for the batch has finished.
C3_CompletesAfterEveryUnit == Completed => \A i \in Threads : Done(i)

\* C4: a unit that ends in an exception does not abort the batch: Automation
\* does not raise and still returns True.
C4_UnitExceptionContained ==
    /\ apc # "raised"
    /\ (apc = "returned" /\ SomeRaised) => result = "True"

\* C5: whenever Automation returns, it returns True, whatever the units
\* returned; it raises only when a unit raised, never because of a Failure
\* result; with every unit finished and none raised the only way on is the
\* return.
C5_ReturnsTrueWhateverTheResults ==
    /\ apc = "returned" => result = "True"
    /\ apc = "raised" => SomeRaised
    /\ (apc = "gather" /\ AllDone /\ ~SomeRaised) => ENABLED Return

\* Automation returned although a unit returned False
C5_Witness ==
    /\ apc = "returned"
    /\ result = "True"
    /\ \E i \in Threads : units[i].ret = "False"

-----------------------------------------------------------------------------
(* OpenApp *)

\* C6: OpenApp never raises to its caller; every call ends by returning a
\* boolean.
C6_OpenAppNeverRaises ==
    \A i \in Threads : units[i].fn = "OpenApp" => units[i].ret # "raise"

\* the url was handed to one of the browser-launch mechanisms
Launched(u, url) ==
    \E j \in 1..Len(u.log) :
        /\ u.log[j].op \in {"chrome.exe", "start chrome", "webbrowser.open"}
        /\ u.log[j].target = url

\* C7: whenever the installed-application tier failed and no result link was
\* extracted (the fetch raised, returned a non-200 status, or the page had no
\* marked anchor), OpenApp opens the search-results url of the argument and
\* returns True.
C7_GenericSearchFallback ==
    \A i \in Threads :
        (/\ units[i].fn = "OpenApp"
         /\ Done(i)
         /\ units[i].fetch \in {"raised", "non200", "nolink"})
            => /\ units[i].ret = "True"
               /\ Launched(units[i], GoogleUrl(units[i].arg))


-----------------------------------------------------------------------------
(* The dispatcher *)

\* the units command number c of the batch has produced, as (fn, arg) pairs
UnitsOf(c) ==
    LET own == SelectSeq(funcs, LAMBDA f : f.cmd = c)
    IN  [j \in 1..Len(own) |-> Unit(own[j].fn, own[j].arg)]

\* the commands the for loop has gone through
Consumed == 1..idx

\* the keyword prefixes and the component each is routed to
KeywordRoutes ==
    { <<"open ", "OpenApp">>, <<"close ", "CloseApp">>, <<"play ", "PlayYoutube">>,
      <<"content ", "Content">>, <<"youtube search ", "YoutubeSearch">>,
      <<"google search ", "WebSearch">>, <<"system ", "ExecuteCommand">> }

HasKeywordPrefix(command) == \E r \in KeywordRoutes : StartsWith(command, r[1])

\* the two suppressed forms of "open": the argument is "it", or begins with "file "
SuppressedOpen(command) ==
    \/ command = "open it"
    \/ StartsWith(command, "open file ")

\* C8: "open it" and every "open file <rest>" produce no unit of work, while
\* every other command of the batch is dispatched as it would be alone.
C8_SuppressedOpenFormsMakeNoUnit ==
    \A c \in Consumed :
        IF SuppressedOpen(Lower(commands[c]))
        THEN UnitsOf(c) = <<>>
        ELSE UnitsOf(c) = IF IsUnit(Classify(commands[c])) THEN <<Classify(commands[c])>>
                          ELSE <<>>

\* C9: every command that starts with a keyword prefix yields exactly one
\* unit, routed by the prefix with the prefix stripped, except the two
\* suppressed forms of "open", which yield none.
C9_OneUnitPerKeywordCommand ==
    \A c \in Consumed :
        \A r \in KeywordRoutes :
            LET command == Lower(commands[c])
            IN  StartsWith(command, r[1]) =>
                    UnitsOf(c) = IF SuppressedOpen(command) THEN <<>>
                                 ELSE <<Unit(r[2], RemovePrefix(command, r[1]))>>

\* the hardware keywords the secondary heuristic is specified with
HardwareKeywords ==
    {"volume", "brightness", "mute", "lock", "shutdown", "restart", "sleep"}

\* C10 as stated: every command with no keyword prefix that contains a
\* hardware keyword yields exactly one ExecuteCommand unit that receives the
\* whole command.
C10_HardwareWordRoutesToSystemControl ==
    \A c \in Consumed :
        LET command == Lower(commands[c])
        IN  (~HasKeywordPrefix(command) /\ ContainsAny(HardwareKeywords, command))
                => UnitsOf(c) = <<Unit("ExecuteCommand", command)>>

\* C10 amended: the same for every such command that does not start with
\* "general "; the unit receives the whole command, lower-cased.
C10_HardwareWordRoutesUnlessGeneral ==
    \A c \in Consumed :
        LET command == Lower(commands[c])
        IN  (/\ ~HasKeywordPrefix(command)
             /\ ~StartsWith(command, "general ")
             /\ ContainsAny(HardwareKeywords, command))
                => UnitsOf(c) = <<Unit("ExecuteCommand", command)>>

\* a command without prefix was routed to ExecuteCommand on a keyword in its middle
C10_Witness ==
    \E c \in Consumed :
        /\ commands[c] = "please restart"
        /\ UnitsOf(c) = <<Unit("ExecuteCommand", "please restart")>>

\* the command was printed as unknown by the final else
LoggedUnknown(c) ==
    \E j \in 1..Len(console) :
        console[j] = [cmd |-> c, text |-> "Unknown command: " \o Lower(commands[c])]

\* C11 as stated: every command that starts with none of the seven keyword
\* prefixes and contains none of the seven hardware keywords is logged as
\* Unknown and produces no unit of work.
C11_UnmatchedCommandOnlyLogged ==
    \A c \in Consumed :
        LET command == Lower(commands[c])
        IN  (~HasKeywordPrefix(command) /\ ~ContainsAny(HardwareKeywords, command))
                => (UnitsOf(c) = <<>> /\ LoggedUnknown(c))

\* C11 amended: every such command that does not contain "turn off" either
\* produces no unit of work; it is logged as Unknown unless it starts with
\* "general ", which is skipped without a log line.  No other command is
\* logged as Unknown.
C11_UnmatchedCommandMakesNoUnit ==
    \A c \in Consumed :
        LET command == Lower(commands[c])
            unmatched == /\ ~HasKeywordPrefix(command)
                         /\ ~ContainsAny(HardwareKeywords, command)
                         /\ ~Contains("turn off", command)
        IN  /\ unmatched => UnitsOf(c) = <<>>
            /\ LoggedUnknown(c) <=> (unmatched /\ ~StartsWith(command, "general "))

\* an unmatched command was printed and left funcs as it was
C11_Witness ==
    \E c \in Consumed :
        /\ commands[c] = "hello there"
        /\ LoggedUnknown(c)
        /\ UnitsOf(c) = <<>>
        /\ idx = Len(commands)
        /\ Len(funcs) = Len(commands) - 1

\* the (fn, arg) pairs a for loop over cmds leaves in funcs
RECURSIVE Dispatched(_)
Dispatched(cmds) ==
    IF cmds = <<>> THEN <<>>
    ELSE LET f == Classify(Head(cmds))
         IN  (IF IsUnit(f) THEN <<f>> ELSE <<>>) \o Dispatched(Tail(cmds))

\* the consumed part of the batch with the commands logged as Unknown taken out
WithoutUnknown ==
    LET pos == SelectSeq([c \in 1..idx |-> c], LAMBDA c : ~LoggedUnknown(c))
    IN  [j \in 1..Len(pos) |-> commands[pos[j]]]

\* C12: a command that reached the Unknown branch is no unit of the batch and
\* raises nothing (an exception of the batch comes from the unit of another
\* command); funcs holds what the batch without such commands would have put
\* there.
C12_UnknownCommandIsInert ==
    /\ \A c \in Consumed :
           LoggedUnknown(c) =>
               /\ UnitsOf(c) = <<>>
               /\ \A j \in 1..Len(units) : units[j].cmd # c
               /\ apc = "raised" => \E j \in 1..Len(units) :
                                        units[j].ret = "raise" /\ units[j].cmd # c
    /\ [j \in 1..Len(funcs) |-> Unit(funcs[j].fn, funcs[j].arg)] = Dispatched(WithoutUnknown)

\* a batch with an unknown command in front ran its other command to the end
C12_Witness ==
    /\ commands = <<"hello there", "open spotify">>
    /\ LoggedUnknown(1)
    /\ funcs = <<[fn |-> "OpenApp", arg |-> "spotify", cmd |-> 2]>>
    /\ apc = "returned"

-----------------------------------------------------------------------------
(* CloseApp: what each matched window receives *)

\* the argument names one of the known browsers
ArgumentNamesBrowser(app) == ContainsAny(BrowserNames, app)

\* what a matched window is to receive: the keystroke when its title shows a
\* browser and the argument names none, the close-window message otherwise
Delivery(app, title) ==
    IF is_browser(title) /\ ~ArgumentNamesBrowser(app) THEN "ctrl+w" ELSE "WM_CLOSE"

\* C13: every matched window of a CloseApp call receives the keystroke Ctrl+W,
\* while it holds the focus, when its title contains a browser name and the
\* argument names no browser, and the message WM_CLOSE in every other case.
C13_TabOrWindowByArgument ==
    \A i \in 1..Len(units) :
        units[i].fn = "CloseApp" =>
            \A j \in 1..Len(units[i].log) :
                LET e == units[i].log[j]
                IN  e.op \in {"ctrl+w", "WM_CLOSE"} =>
                        /\ e.op = Delivery(Normalize(units[i].arg), TitleOf(e.hwnd))
                        /\ e.op = "ctrl+w" => e.fg = e.hwnd

-----------------------------------------------------------------------------
(* CloseApp: the force-kill fallback *)

\* the call has force-killed the image named by its argument
KilledArgument(u) ==
    \E j \in 1..Len(u.log) : u.log[j] = Effect("taskkill", Normalize(u.arg))

\* the argument may be force-killed: not protected, and an image name
Killable(app) == app \notin critical_processes /\ EndsWith(app, ".exe")

-----------------------------------------------------------------------------
(* CloseApp: the file manager *)

\* C15: a CloseApp call whose argument is "file explorer", in any casing and
\* with surrounding whitespace, never enumerates windows, never reaches the
\* fallback and never issues taskkill; it returns at once, True after the
\* shell's quit-all-windows call and False when that call raised.
C15_FileExplorerClosedByShellOnly ==
    \A i \in 1..Len(units) :
        LET u == units[i]
        IN  (u.fn = "CloseApp" /\ Normalize(u.arg) = "file explorer") =>
                /\ ~Visited(u, "enum")
                /\ ~Visited(u, "fallback")
                /\ ~Performed(u, "taskkill")
                /\ u.pc \in {"start", "done"}
                /\ Done(i) =>
                       /\ u.trace = <<"start">>
                       /\ \/ u.ret = "True" /\ u.log = <<Effect("shell.quit", "explorer")>>
                          \/ u.ret = "False" /\ u.log = <<>>

\* the quit call raised while a window of the file manager was open: the call
\* returned False without looking at the windows
C15_Witness ==
    \E i \in 1..Len(units) :
        /\ units[i].arg = " File Explorer "
        /\ found_windows("file explorer") # <<>>
        /\ units[i].ret = "False"
        /\ units[i].trace = <<"start">>
        /\ units[i].found = <<>>

-----------------------------------------------------------------------------
(* Independence of the units *)

\* the batches of the content runs
ContentPool == {"content essay", "Content Poem"}

\* what an earlier batch may have left in messages
EarlierMessages ==
    { <<>>,
      <<Message("user", "letter"), Message("assistant", Answer(<<Message("user", "letter")>>))>> }

\* Automation(commands) is called with Content commands only
InitContent ==
    /\ commands \in Batches(ContentPool, MaxBatch)
    /\ console = <<>>
    /\ main = NoMain
    /\ messages \in EarlierMessages
    /\ host = DefaultHost
    /\ windows = <<>>
    /\ foreground = 0
    /\ brightness = 95
    /\ idx = 0
    /\ funcs = <<>>
    /\ units = <<>>
    /\ apc = "translate"
    /\ result = "none"

NextContent == Translate \/ Gather \/ Return \/ Raise \/ ContentStep

SpecContent == InitContent /\ [][NextContent]_vars

\* the conversation a Content unit sends when nothing else has touched messages
OwnPrompt(u) == <<Message("user", u.arg)>>

\* C16: no unit depends on state written by another unit; in particular the
\* prompt a Content unit sends to the LLM is the one it sends when it runs
\* alone, whichever units run beside it or ran in an earlier batch.
C16_UnitsShareNoState ==
    \A i \in 1..Len(units) :
        (units[i].fn = "Content" /\ Visited(units[i], "request") /\ units[i].ret # "raise")
            => units[i].prompt = OwnPrompt(units[i])

-----------------------------------------------------------------------------
(* ExecuteCommand called directly *)

BrightnessMax == 100

\* the commands the router is exercised on
SystemArgs ==
    {"mute", "unmute", "volume up", "decrease volume", "brightness up",
     "increase brightness", "brightness down", "decrease brightness",
     "turn off", "sleep", "turn on", "lock", "shutdown", "restart", "hello",
     "mute and lock", "restart after shutdown", "turn on sleep mode"}

\* ExecuteCommand(command) is called at any brightness level of the monitor
InitSystem ==
    /\ commands = <<>>
    /\ console = <<>>
    /\ main = NoMain
    /\ messages = <<>>
    /\ host = DefaultHost
    /\ windows = <<>>
    /\ foreground = 0
    /\ brightness \in 0..BrightnessMax
    /\ idx = 0
    /\ funcs = <<>>
    /\ \E a \in SystemArgs : units = Call("ExecuteCommand", a)
    /\ apc = "direct"
    /\ result = "none"

NextSystem == ExecuteCommandStep

SpecSystem == InitSystem /\ [][NextSystem]_vars

\* the step the command asks for
StepOf(command) ==
    IF Contains("brightness up", command) \/ Contains("increase brightness", command)
    THEN 10 ELSE -10

\* a level brought back into the range of the monitor
Clamped(level) == IF level < 0 THEN 0 ELSE IF level > 100 THEN 100 ELSE level

\* C17: whatever level the query read, the level a brightness command writes
\* back is the level read plus the step (+10 up, -10 down) clamped to
\* [0, 100], and it is the only thing the command does.
C17_BrightnessClamped ==
    \A i \in 1..Len(units) :
        LET u == units[i]
        IN  (u.fn = "ExecuteCommand" /\ Performed(u, "WmiSetBrightness")) =>
                /\ u.log = <<LevelEffect("WmiSetBrightness", Clamped(u.cur + StepOf(u.arg)))>>
                /\ u.log[1].level \in 0..100
                /\ brightness = u.log[1].level

\* at level 95 "brightness up" wrote 100
C17_Witness ==
    \E i \in 1..Len(units) :
        /\ units[i].arg = "brightness up"
        /\ units[i].cur = 95
        /\ units[i].log = <<LevelEffect("WmiSetBrightness", 100)>>
        /\ brightness = 100

\* C18: the step in which the brightness query gives no level (empty output,
\* text that is no integer) ends the call at once with True: no set call is
\* issued and the brightness and every other part of the state stay as they
\* were.
C18_NoReadingNoEffect ==
    [][\A i \in 1..Len(units) :
          (/\ units[i].fn = "ExecuteCommand"
           /\ units[i].stdout = "none"
           /\ units'[i].stdout \in {"empty", "text"})
              => /\ units'[i].pc = "done"
                 /\ units'[i].ret = "True"
                 /\ units'[i].log = units[i].log
                 /\ ~Performed(units'[i], "WmiSetBrightness")
                 /\ brightness' = brightness
                 /\ UNCHANGED <<windows, foreground, messages, console>>]_vars

\* "brightness up" returned True on an empty reading and the level is still 95
C18_Witness ==
    \E i \in 1..Len(units) :
        /\ units[i].arg = "brightness up"
        /\ units[i].stdout = "empty"
        /\ units[i].ret = "True"
        /\ units[i].log = <<>>
        /\ brightness = 95

\* the rows of the command table, in order: the triggers and the effect
CommandTable ==
    << [triggers |-> {"mute"}, effect |-> "mute"],
       [triggers |-> {"unmute"}, effect |-> "unmute"],
       [triggers |-> {"increase volume", "volume up"}, effect |-> "increase_volume"],
       [triggers |-> {"decrease volume", "volume down"}, effect |-> "decrease_volume"],
       [triggers |-> {"increase brightness", "brightness up"}, effect |-> "brightness_up"],
       [triggers |-> {"decrease brightness", "brightness down"}, effect |-> "brightness_down"],
       [triggers |-> {"turn off", "sleep"}, effect |-> "turn_off"],
       [triggers |-> {"turn on"}, effect |-> "turn_on"],
       [triggers |-> {"lock"}, effect |-> "lock"],
       [triggers |-> {"shutdown"}, effect |-> "shutdown"],
       [triggers |-> {"restart"}, effect |-> "restart"] >>

\* the rows one of whose triggers is in the command
MatchingRows(command) ==
    {r \in 1..Len(CommandTable) : ContainsAny(CommandTable[r].triggers, command)}

\* the first row that matches, "none" when no row does
FirstRow(command) ==
    IF MatchingRows(command) = {} THEN "none"
    ELSE CommandTable[CHOOSE r \in MatchingRows(command) :
                          \A q \in MatchingRows(command) : r <= q].effect

-----------------------------------------------------------------------------
(* OpenApp: the known folders *)

\* the aliases of the file manager
AliasTable == {"file explorer", "file manager", "my computer", "this pc", "explorer"}

\* the call went beyond the first tier
LaterTier(u) ==
    \/ Performed(u, "appopen")
    \/ Visited(u, "search")
    \/ Visited(u, "open")
    \/ u.fetch # "none"
    \/ \E j \in 1..Len(u.log) : u.log[j].op \in {"chrome.exe", "start chrome", "webbrowser.open"}

\* C20 as stated: for an argument of the alias table OpenApp performs the
\* shell invocation and attempts no later tier: no registry lookup, no HTTP
\* fetch, no browser launch.
C20_KnownFolderBypassesLaterTiers ==
    \A i \in 1..Len(units) :
        LET u == units[i]
        IN  (u.fn = "OpenApp" /\ u.arg \in AliasTable) =>
                /\ ~LaterTier(u)
                /\ Done(i) => u.log = <<Effect("startfile", "explorer")>>

\* C20 amended: for an argument of the alias table OpenApp attempts the shell
\* invocation and never the registry lookup; when the invocation succeeds the
\* call returns True at once and no later tier is attempted; the HTTP fetch
\* and the browser launch happen only when the invocation raised.
C20_KnownFolderBypassesUnlessShellRaised ==
    \A i \in 1..Len(units) :
        LET u == units[i]
        IN  (u.fn = "OpenApp" /\ u.arg \in AliasTable) =>
                /\ ~Performed(u, "appopen")
                /\ Performed(u, "startfile") =>
                       /\ u.log = <<Effect("startfile", "explorer")>>
                       /\ u.trace = <<"start">>
                       /\ u.ret = "True"
                       /\ ~LaterTier(u)
                /\ LaterTier(u) => (~Performed(u, "startfile") /\ u.trace[1] = "start")

\* "this pc" was opened by the shell and nothing else happened
C20_Witness ==
    \E i \in 1..Len(units) :
        /\ units[i].arg = "this pc"
        /\ units[i].pc = "done"
        /\ units[i].log = <<Effect("startfile", "explorer")>>
        /\ units[i].fetch = "none"

-----------------------------------------------------------------------------
(* OpenApp: the order of the tiers *)

\* the tier did not resolve the argument
Failed(t) == t.outcome \in {"miss", "raised", "non200", "nolink"}

\* every tier before the last attempted one failed
StopsAtFirstSuccess(u) == \A j \in 1..(Len(u.tiers) - 1) : Failed(u.tiers[j])

\* C21 as stated: the tiers are attempted in the order 1, 2, 3, 4, each only
\* after every earlier tier was attempted and failed, and none after one
\* succeeded.
C21_TiersInStrictOrder ==
    \A i \in 1..Len(units) :
        units[i].fn = "OpenApp" =>
            /\ \A j \in 1..Len(units[i].tiers) : units[i].tiers[j].tier = j
            /\ StopsAtFirstSuccess(units[i])

\* C21 amended: the tiers are attempted in ascending order starting with the
\* first, none after one succeeded, and each directly after the one before
\* it, except that the installed-application match is skipped when the shell
\* invocation of a known folder raised: the web search follows at once.
C21_TiersInOrderUnlessShellRaised ==
    \A i \in 1..Len(units) :
        LET t == units[i].tiers
        IN  units[i].fn = "OpenApp" =>
                /\ t # <<>> => t[1].tier = 1
                /\ StopsAtFirstSuccess(units[i])
                /\ \A j \in 1..(Len(t) - 1) :
                       \/ t[j + 1].tier = t[j].tier + 1 /\ t[j] # Tier(1, "raised")
                       \/ t[j] = Tier(1, "raised") /\ t[j + 1].tier = 3

\* all four tiers were attempted, one after the other, and the last one opened
\* the search page
C21_Witness ==
    \E i \in 1..Len(units) :
        /\ units[i].arg = "spotify"
        /\ units[i].tiers = <<Tier(1, "miss"), Tier(2, "raised"), Tier(3, "nolink"), Tier(4, "ok")>>
        /\ Launched(units[i], GoogleUrl("spotify"))

\* OpenApp calls in which every OS and network call returns
SpecOpenLive == InitOpen /\ [][NextOpen]_vars /\ WF_vars(NextOpen)

\* no tier appears twice among the tiers the call has attempted, and the
\* tier numbers only grow
EachTierOnce ==
    \A i \in 1..Len(units) :
        units[i].fn = "OpenApp" =>
            \A j, k \in 1..Len(units[i].tiers) :
                j < k => units[i].tiers[j].tier < units[i].tiers[k].tier

\* C22: every OpenApp call attempts each tier at most once, never going back
\* to a tier or to an earlier one, and, as long as every OS and network call
\* returns, it terminates.
C22_OpenAppTerminates ==
    /\ []EachTierOnce
    /\ <>(\A i \in 1..Len(units) : units[i].fn = "OpenApp" => units[i].pc = "done")

\* a call ended at the third tier after three steps
C22_Witness ==
    \E i \in 1..Len(units) :
        /\ units[i].arg = "youtube"
        /\ units[i].pc = "done"
        /\ units[i].trace = <<"start", "search", "open">>
        /\ units[i].tiers = <<Tier(1, "miss"), Tier(2, "raised"), Tier(3, "link")>>

-----------------------------------------------------------------------------
(* OpenApp: the choice of the browser *)

\* the place of a mechanism in the order of preference
Rank(mech) == CASE mech = "chrome.exe" -> 1 [] mech = "start chrome" -> 2 [] OTHER -> 3

\* the mechanisms the machine offers: a chrome.exe path where one exists, the
\* shell's named launch on Windows when none does, the generic open anywhere
Available(mech) ==
    CASE mech = "chrome.exe" -> host.system = "Windows" /\ host.chrome # {}
      [] mech = "start chrome" -> host.system = "Windows" /\ host.chrome = {}
      [] OTHER -> TRUE

\* C23: open_in_chrome starts with the most preferred mechanism the machine
\* offers (of the chrome.exe paths, the first that exists), moves on, in the
\* order of preference, exactly when the mechanism it tried erred, and ends
\* with a mechanism that took the url without error.
C23_UrlReachesWorkingMechanism ==
    \A i \in 1..Len(units) :
        LET run == units[i].launch
        IN  (units[i].fn = "OpenApp" /\ Visited(units[i], "open")) =>
                /\ run # <<>>
                /\ Available(run[1].mech)
                /\ \A m \in {"chrome.exe", "start chrome"} :
                       Available(m) => Rank(run[1].mech) <= Rank(m)
                /\ run[1].mech = "chrome.exe" =>
                       run[1].path \in host.chrome /\ \A q \in host.chrome : run[1].path <= q
                /\ \A j \in 1..(Len(run) - 1) :
                       run[j].outcome # "ok" /\ Rank(run[j].mech) < Rank(run[j + 1].mech)
                /\ run[Len(run)].outcome = "ok"

-----------------------------------------------------------------------------
(* CloseApp: errors in the window loop *)

\* the windows of found the loop has got to
Attempted(u) == {u.found[j] : j \in 1..u.k}

\* C24: an error while one matched window is handled (title query, focus,
\* keystroke, close message) is caught, and CloseApp still gets to every
\* other matched window before it returns.
C24_EveryMatchedWindowAttempted ==
    \A i \in 1..Len(units) :
        LET u == units[i]
        IN  (u.fn = "CloseApp" /\ Done(i) /\ u.found # <<>>) =>
                /\ u.ret # "raise"
                /\ Attempted(u) = {u.found[j] : j \in 1..Len(u.found)}

-----------------------------------------------------------------------------
(* Units that block *)

PoolBatch == 6

\* batches of searches, up to one more than the executor has workers
InitPool ==
    /\ commands \in Batches({"youtube search cats"}, PoolBatch)
    /\ console = <<>>
    /\ main = NoMain
    /\ messages = <<>>
    /\ host = DefaultHost
    /\ windows = <<>>
    /\ foreground = 0
    /\ brightness = 95
    /\ idx = 0
    /\ funcs = <<>>
    /\ units = <<>>
    /\ apc = "translate"
    /\ result = "none"

NextPool ==
    \/ Translate
    \/ Gather
    \/ Return
    \/ Dequeue
    \/ Hang
    \/ \E i \in Threads : YoutubeSearch(i)

SpecPool == InitPool /\ [][NextPool]_vars

\* the units that are in a call that never returns
Blocked == {j \in 1..Len(units) : units[j].thread = "blocked"}

\* the unit has not been started and never will be: every worker of the
\* executor is held by a blocked unit
Starved(i) == units[i].thread = "queued" /\ Cardinality(Blocked) >= Workers

\* C25: a blocked unit blocks only itself: whatever the size of the batch and
\* however many units are blocked, every other unit is started or can still
\* be started.
C25_BlockedUnitBlocksOnlyItself ==
    \A i \in 1..Len(units) : ~Starved(i)

-----------------------------------------------------------------------------
(* Tab-closing units in one batch *)

\* two browser windows of different browsers
TabDesktop ==
    << [title |-> "YouTube - Google Chrome", visible |-> TRUE],
       [title |-> "New Tab - Brave", visible |-> TRUE] >>

\* Automation(commands) with commands that close a tab of one of them
InitTabs ==
    /\ commands \in Batches({"close youtube", "close new tab"}, MaxBatch)
    /\ console = <<>>
    /\ main = NoMain
    /\ messages = <<>>
    /\ host = DefaultHost
    /\ windows = TabDesktop
    /\ foreground = 0
    /\ brightness = 95
    /\ idx = 0
    /\ funcs = <<>>
    /\ units = <<>>
    /\ apc = "translate"
    /\ result = "none"

NextTabs == Translate \/ Gather \/ Return \/ CloseAppStep

SpecTabs == InitTabs /\ [][NextTabs]_vars

\* unit i has focused window hwnd on the tab-close path
HasFocused(i, hwnd) ==
    /\ units[i].fn = "CloseApp"
    /\ \E j \in 1..Len(units[i].found) :
           /\ units[i].found[j] = hwnd
           /\ j < units[i].k \/ (j = units[i].k /\ units[i].pc \in {"key", "done"})
    /\ TabPath(units[i].app, TitleOf(hwnd))

\* the keystrokes unit i has sent
Keystrokes(i) == {units[i].log[j] : j \in {n \in 1..Len(units[i].log) : units[i].log[n].op = "ctrl+w"}}

\* C26: the focus is shared by the units of a batch.  A Ctrl+W that a unit
\* sends for one window lands on that window or on a window another unit of
\* the batch has focused in between; in a batch with a single CloseApp unit
\* every keystroke lands on the window it was sent for.
C26_KeystrokeFollowsSharedFocus ==
    \A i \in 1..Len(units) :
        \A e \in Keystrokes(i) :
            /\ e.fg = e.hwnd \/ \E j \in 1..Len(units) : j # i /\ HasFocused(j, e.fg)
            /\ Len(units) = 1 => e.fg = e.hwnd

\* one unit sent its Ctrl+W for the Chrome window while the Brave window,
\* focused by the other unit, held the foreground
C26_Witness ==
    /\ Len(units) = 2
    /\ units[1].arg = "youtube"
    /\ units[2].arg = "new tab"
    /\ \E e \in Keystrokes(1) : e.hwnd = 1 /\ e.fg = 2

-----------------------------------------------------------------------------
(* Brightness adjustments in one batch *)

\* Automation(commands) with brightness commands, the monitor at level 50
InitBright ==
    /\ commands \in Batches({"system brightness up", "brightness down"}, MaxBatch)
    /\ console = <<>>
    /\ main = NoMain
    /\ messages = <<>>
    /\ host = DefaultHost
    /\ windows = <<>>
    /\ foreground = 0
    /\ brightness = 50
    /\ idx = 0
    /\ funcs = <<>>
    /\ units = <<>>
    /\ apc = "translate"
    /\ result = "none"

NextBright == Translate \/ Gather \/ Return \/ ExecuteCommandStep

SpecBright == InitBright /\ [][NextBright]_vars

\* the unit read a level and wrote one back
Adjusted(u) == u.pc = "done" /\ u.stdout = "int" /\ Performed(u, "WmiSetBrightness")

\* C27: when a batch holds two brightness adjustments and both read a level
\* and wrote one back, the level of the monitor is the initial level with the
\* two steps applied one after the other, each clamped to [0, 100].
C27_TwoAdjustmentsAddUp ==
    (Len(units) = 2 /\ Adjusted(units[1]) /\ Adjusted(units[2])) =>
        \/ brightness = Clamped(Clamped(50 + StepOf(units[1].arg)) + StepOf(units[2].arg))
        \/ brightness = Clamped(Clamped(50 + StepOf(units[2].arg)) + StepOf(units[1].arg))

-----------------------------------------------------------------------------
(* CloseApp: which windows are closed *)

\* the windows a CloseApp call sent a close message or a close-tab keystroke to
ClosedBy(u) ==
    {u.log[j].hwnd : j \in {n \in 1..Len(u.log) : u.log[n].op \in {"ctrl+w", "WM_CLOSE"}}}

\* C28: CloseApp sends a close message or a close-tab keystroke only to
\* visible windows whose lowercased title contains the normalized argument,
\* and a call whose argument is empty after trimming and lowercasing closes
\* no window.
C28_ClosesOnlyNamedWindows ==
    \A i \in 1..Len(units) :
        LET u == units[i]
            app == Normalize(u.arg)
        IN  u.fn = "CloseApp" =>
                /\ \A hwnd \in ClosedBy(u) :
                       windows[hwnd].visible /\ Contains(app, TitleOf(hwnd))
                /\ app = "" => ClosedBy(u) = {}

-----------------------------------------------------------------------------
(* Main.py: MainExecution, called in a loop by FirstThread, hands the       *)
(* classifier's decision list to Automation.                                *)
(*   pc            "idle" in FirstThread's loop, "scan" in the loop over    *)
(*                 the decision list, "run" inside run(Automation(...)),    *)
(*                 "exited" after os._exit                                  *)
(*   Decision      what FirstLayerDMM returned                              *)
(*   q             entries of Decision the automation loop has visited      *)
(*   TaskExecution the flag of the same name                                *)
(*   calls         how often this run has called Automation                 *)
(*   runs          how often FirstThread has called MainExecution           *)

\* Keyword list for automation decisions
functions == {"open", "close", "play", "system", "content", "google search", "youtube search"}

\* any(queries.startswith(func) for func in functions)
IsAutomation(queries) == \E func \in functions : StartsWith(queries, func)

MaxRuns == 2

\* what the classifier answers with
DecisionPool ==
    {"play believer", "system brightness up", "general hello",
     "realtime how to lock a door", "generate image of a sleeping cat", "exit"}

\* a bug: run() hands control back while threads of the batch are running
Joined_Early == TRUE

\* asyncio.run returns or raises after the coroutine has ended and the
\* default executor has been shut down, which joins the threads of to_thread
Joined == \A j \in 1..Len(units) : units[j].pc = "done"

\* the unit's thread has not ended
Unfinished(u) == u.pc # "done"

\* run() is over: the coroutine's frame (commands, funcs, the results) is
\* gone and its return value is dropped; of the threads only those that have
\* not ended are left
CallEnded ==
    /\ commands' = <<>>
    /\ idx' = 0
    /\ funcs' = <<>>
    /\ units' = SelectSeq(units, Unfinished)
    /\ apc' = "none"
    /\ result' = "none"

\* FirstThread: the microphone status is "true", MainExecution() is called;
\* it listens, asks the classifier and sets its locals
MainExecution_start ==
    /\ main.pc = "idle"
    /\ main.runs < MaxRuns
    /\ \E D \in Batches(DecisionPool, MaxBatch) :
           main' = [pc |-> "scan", Decision |-> D, q |-> 0, TaskExecution |-> FALSE,
                    calls |-> 0, runs |-> main.runs + 1]
    /\ UNCHANGED <<commands, console, messages, host, windows, foreground, brightness, idx, funcs, units, apc, result>>

\* one iteration of the automation loop: the first entry that starts with an
\* automation keyword makes MainExecution call run(Automation(list(Decision)))
MainExecution_scan ==
    /\ main.pc = "scan"
    /\ main.q < Len(main.Decision)
    /\ IF ~main.TaskExecution /\ IsAutomation(main.Decision[main.q + 1])
       THEN /\ main' = [main EXCEPT !.pc = "run", !.q = @ + 1, !.calls = @ + 1]
            /\ commands' = main.Decision
            /\ idx' = 0
            /\ funcs' = <<>>
            /\ units' = <<>>
            /\ apc' = "translate"
            /\ result' = "none"
       ELSE /\ main' = [main EXCEPT !.q = @ + 1]
            /\ UNCHANGED <<commands, idx, funcs, units, apc, result>>
    /\ UNCHANGED <<console, messages, host, windows, foreground, brightness>>

\* run() returned: TaskExecution = True, and the loop goes on
MainExecution_resume ==
    /\ main.pc = "run"
    /\ apc = "returned"
    /\ Joined
    /\ main' = [main EXCEPT !.pc = "scan", !.TaskExecution = TRUE]
    /\ CallEnded
    /\ UNCHANGED <<console, messages, host, windows, foreground, brightness>>

\* run() raised what Automation raised: except Exception prints it and
\* MainExecution returns to FirstThread
MainExecution_except ==
    /\ main.pc = "run"
    /\ apc = "raised"
    /\ Joined
    /\ main' = [main EXCEPT !.pc = "idle"]
    /\ CallEnded
    /\ UNCHANGED <<console, messages, host, windows, foreground, brightness>>

\* R = any(i.startswith("realtime") ...)
R(Decision) == \E k \in 1..Len(Decision) : StartsWith(Decision[k], "realtime")

\* the response loop reaches the exit branch: no realtime entry, and the
\* first entry holding "general", "realtime" or "exit" holds only "exit"
Exits(Decision) ==
    /\ ~R(Decision)
    /\ \E k \in 1..Len(Decision) :
           /\ Contains("exit", Decision[k])
           /\ \A j \in 1..k : ~Contains("general", Decision[j]) /\ ~Contains("realtime", Decision[j])
           /\ \A j \in 1..(k - 1) : ~Contains("exit", Decision[j])

\* after the automation loop: image generation and the response, which ends
\* in a return to FirstThread or in os._exit
MainExecution_respond ==
    /\ main.pc = "scan"
    /\ main.q = Len(main.Decision)
    /\ main' = [main EXCEPT !.pc = IF Exits(main.Decision) THEN "exited" ELSE "idle"]
    /\ UNCHANGED <<commands, console, messages, host, windows, foreground, brightness, idx, funcs, units, apc, result>>

InitMain ==
    /\ main = [NoMain EXCEPT !.pc = "idle"]
    /\ commands = <<>>
    /\ console = <<>>
    /\ messages = <<>>
    /\ host = DefaultHost
    /\ windows = <<>>
    /\ foreground = 0
    /\ brightness = 50
    /\ idx = 0
    /\ funcs = <<>>
    /\ units = <<>>
    /\ apc = "none"
    /\ result = "none"

NextMain ==
    \/ MainExecution_start
    \/ MainExecution_scan
    \/ MainExecution_resume
    \/ MainExecution_except
    \/ MainExecution_respond
    \/ Translate
    \/ Gather
    \/ Return
    \/ Raise
    \/ ExecuteCommandStep
    \/ \E i \in Threads : PlayYoutube(i)

SpecMain == InitMain /\ [][NextMain]_vars

\* an entry of the decision list that belongs to another collaborator
Foreign(queries) ==
    \/ StartsWith(queries, "general")
    \/ StartsWith(queries, "realtime")
    \/ StartsWith(queries, "generate image")
    \/ StartsWith(queries, "exit")

\* C29: when MainExecution hands the whole decision list to Automation, the
\* entries prefixed "general", "realtime" or "generate image" and the entry
\* "exit" produce no unit of work, and so no OS-level effect.
C29_ForeignEntriesAreInert ==
    (main.pc = "run" /\ commands = main.Decision) =>
        /\ \A j \in 1..Len(funcs) : ~Foreign(Lower(commands[funcs[j].cmd]))
        /\ \A i \in 1..Len(units) : ~Foreign(Lower(commands[units[i].cmd]))

\* C30: MainExecution calls Automation at most once in a run, with the whole
\* decision list, and stays inside that call while anything of the batch
\* executes: outside the call no batch is being translated or run and no
\* unit is unfinished, so a batch never starts while another one executes.
C30_BatchesAreSerialized ==
    /\ main.calls <= 1
    /\ main.pc = "run" => (main.calls = 1 /\ commands = main.Decision)
    /\ main.pc # "run" =>
           /\ apc \notin {"translate", "gather"}
           /\ \A i \in 1..Len(units) : units[i].pc = "done"

\* in its second run MainExecution has called Automation once, for the first
\* of two automation entries, and passes the second without calling again
C30_Witness ==
    /\ main.runs = 2
    /\ main.pc = "scan"
    /\ main.q = 2
    /\ main.TaskExecution
    /\ main.calls = 1
    /\ IsAutomation(main.Decision[1])
    /\ IsAutomation(main.Decision[2])
    /\ units = <<>>

====
